---------------------------- MODULE Spec2Model ----------------------------
(***************************************************************************)
(* Model of DHSVM/sourcecode/UnsaturatedFlow.c: the vertical drainage of   *)
(* one soil column (UnsaturatedFlow) and the redistribution of the lateral *)
(* saturated flow over its layers (DistributeSatflow).                     *)
(*                                                                         *)
(* Numbers.  The C code computes in float.  The model computes in exact    *)
(* rational arithmetic: a number is a pair <<n, d>> in lowest terms with   *)
(* d > 0, so two numbers are equal exactly when the pairs are equal.  The  *)
(* one library call, pow(), returns its result truncated to a multiple of  *)
(* 1/PowScale.                                                             *)
(*                                                                         *)
(* Arrays keep the 0-based indices of the source: the explicit layers are  *)
(* 0 .. NSoilLayers-1 and the deep reservoir is index NSoilLayers.         *)
(***************************************************************************)
EXTENDS Integers, Sequences, FiniteSets, TLC

(***************************************************************************)
(* Bounds of the model.                                                    *)
(***************************************************************************)
MaxCalls == 3
PowScale == 16

(***************************************************************************)
(* Rational arithmetic standing for the float operators of the source.     *)
(***************************************************************************)
Abs(x) == IF x < 0 THEN -x ELSE x

RECURSIVE GCD(_, _)
GCD(a, b) == IF b = 0 THEN a ELSE GCD(b, a % b)

LCM(a, b) == (a \div GCD(a, b)) * b

Rat(n, d) ==
  LET g == GCD(Abs(n), d)
  IN  <<n \div g, d \div g>>

Zero == <<0, 1>>
One == <<1, 1>>
Half == <<1, 2>>

Add(a, b) ==
  LET l == LCM(a[2], b[2])
  IN  Rat(a[1] * (l \div a[2]) + b[1] * (l \div b[2]), l)

Neg(a) == <<-a[1], a[2]>>

Sub(a, b) == Add(a, Neg(b))

Mul(a, b) ==
  LET g1 == GCD(Abs(a[1]), b[2])
      g2 == GCD(Abs(b[1]), a[2])
  IN  Rat((a[1] \div g1) * (b[1] \div g2), (a[2] \div g2) * (b[2] \div g1))

Div(a, b) ==
  Mul(a, IF b[1] > 0 THEN <<b[2], b[1]>> ELSE <<-b[2], -b[1]>>)

Lt(a, b) ==
  LET l == LCM(a[2], b[2])
  IN  a[1] * (l \div a[2]) < b[1] * (l \div b[2])

Le(a, b) == ~Lt(b, a)

\* pow(x, e) for a whole exponent e >= 0, each product truncated to the
\* precision of the result.
Trunc(q) == Rat((q[1] * PowScale) \div q[2], PowScale)

RECURSIVE Pow(_, _)
Pow(x, e) == IF e = 0 THEN One ELSE Trunc(Mul(Pow(x, e - 1), x))

(***************************************************************************)
(* The soil columns the calls are made on.  A column is what the caller    *)
(* passes unchanged in every call: the layer count and the per-layer soil  *)
(* parameters.  Each has FCap <= Porosity, positive thicknesses, Adjust    *)
(* and PercArea, Ks >= 0 and a deep layer of positive thickness.           *)
(***************************************************************************)
Column2 ==
  [ NSoilLayers |-> 2,
    TotalDepth  |-> <<2, 1>>,
    RootDepth   |-> [k \in 0..1 |-> IF k = 0 THEN <<1, 2>> ELSE <<1, 1>>],
    Ks          |-> [k \in 0..1 |-> IF k = 0 THEN <<1, 8>> ELSE <<1, 1>>],
    PoreDist    |-> [k \in 0..1 |-> IF k = 0 THEN <<2, 1>> ELSE <<1, 1>>],
    Porosity    |-> [k \in 0..1 |-> <<1, 2>>],
    FCap        |-> [k \in 0..1 |-> <<1, 4>>],
    PercArea    |-> [k \in 0..1 |-> IF k = 0 THEN <<1, 1>> ELSE <<1, 2>>],
    Adjust      |-> [k \in 0..2 |-> IF k = 1 THEN <<1, 2>> ELSE <<1, 1>>] ]

Column1 ==
  [ NSoilLayers |-> 1,
    TotalDepth  |-> <<2, 1>>,
    RootDepth   |-> [k \in 0..0 |-> <<1, 1>>],
    Ks          |-> [k \in 0..0 |-> <<1, 4>>],
    PoreDist    |-> [k \in 0..0 |-> <<2, 1>>],
    Porosity    |-> [k \in 0..0 |-> <<1, 2>>],
    FCap        |-> [k \in 0..0 |-> <<1, 4>>],
    PercArea    |-> [k \in 0..0 |-> <<1, 2>>],
    Adjust      |-> [k \in 0..1 |-> IF k = 0 THEN <<1, 2>> ELSE <<1, 1>>] ]

Columns == {Column1, Column2}

VARIABLES
  column,        \* the soil parameters of the cell
  Moist,         \* Moist[0..NSoilLayers]: moisture content of each layer
  Perc,          \* Perc[0..NSoilLayers-1]: stored percolation of each layer
  TableDepth,    \* *TableDepth
  Runoff,        \* *Runoff
  pc,            \* position in the running call, "idle" between calls
  arg,           \* the scalar arguments of the running (or last) call
  i,             \* loop counter i
  SatFlow,       \* DistributeSatflow's parameter SatFlow, updated in place
  Depth,         \* DistributeSatflow's local Depth
  Infiltration,  \* UnsaturatedFlow's parameter Infiltration, updated in place
  entry,         \* Moist, Perc, TableDepth, Runoff at the entry of the call
  drained,       \* layers whose moisture exceeded FCap when the loop reached them
  wtd,           \* the value WaterTableDepth returned in the last call
  guard,         \* injection: layers for which the depth guard was true
  visited,       \* injection: layers the injection branch reached
  calls,         \* number of calls made
  budget         \* number of calls the caller makes

vars == <<column, Moist, Perc, TableDepth, Runoff, pc, arg, i, SatFlow, Depth,
          Infiltration, entry, drained, wtd, guard, visited, calls, budget>>

NSoilLayers == column.NSoilLayers
TotalDepth == column.TotalDepth
RootDepth == column.RootDepth
Ks == column.Ks
PoreDist == column.PoreDist
Porosity == column.Porosity
FCap == column.FCap
PercArea == column.PercArea
Adjust == column.Adjust

DYNAMIC == "DYNAMIC"
STATIC == "STATIC"

\* DeepLayerDepth = TotalDepth; for (...) DeepLayerDepth -= RootDepth[i];
RECURSIVE SubRootDepth(_, _)
SubRootDepth(d, k) ==
  IF k = NSoilLayers THEN d ELSE SubRootDepth(Sub(d, RootDepth[k]), k + 1)

DeepLayerDepth == SubRootDepth(TotalDepth, 0)

DeepPorosity == Porosity[NSoilLayers - 1]
DeepFCap == FCap[NSoilLayers - 1]

\* Thickness of layer k for use with Moist[k]: RootDepth[k] * Adjust[k], and
\* DeepLayerDepth * Adjust[NSoilLayers] for the deep reservoir.
Thickness(k) ==
  IF k = NSoilLayers THEN Mul(DeepLayerDepth, Adjust[k])
  ELSE Mul(RootDepth[k], Adjust[k])

\* Moist[k] += Water / (thickness of layer k)
AddWater(M, k, Water) == [M EXCEPT ![k] = Add(M[k], Div(Water, Thickness(k)))]


(***************************************************************************)
(* WaterTableDepth(NSoilLayers, TotalDepth, RootDepth, Porosity, FCap,     *)
(* Adjust, Moist).  Caps the moisture of every layer at its porosity,      *)
(* displacing the surplus to the layer above, and returns the depth of the *)
(* water table: minus the surplus the top layer could not hold when there  *)
(* is one, and otherwise TotalDepth reduced by the fraction of the storage *)
(* between field capacity and porosity that is filled.  The result is the  *)
(* record of the capped profile and the returned depth.                    *)
(***************************************************************************)
PorosityOf(k) == IF k = NSoilLayers THEN DeepPorosity ELSE Porosity[k]
FCapOf(k) == IF k = NSoilLayers THEN DeepFCap ELSE FCap[k]

RECURSIVE Displace(_, _)
Displace(M, k) ==
  LET Over == Le(PorosityOf(k), M[k])
      MoistureTransfer ==
        IF Over THEN Mul(Sub(M[k], PorosityOf(k)), Thickness(k)) ELSE Zero
      Capped == IF Over THEN [M EXCEPT ![k] = PorosityOf(k)] ELSE M
  IN  IF k = 0 THEN [Moist |-> Capped, Surplus |-> MoistureTransfer]
      ELSE Displace(AddWater(Capped, k - 1, MoistureTransfer), k - 1)

RECURSIVE TotalStorage(_)
TotalStorage(k) ==
  LET s == Mul(Thickness(k), Sub(PorosityOf(k), FCapOf(k)))
  IN  IF k = 0 THEN s ELSE Add(s, TotalStorage(k - 1))

RECURSIVE ExcessMoisture(_, _)
ExcessMoisture(M, k) ==
  LET ExcessFCap == IF Lt(FCapOf(k), M[k]) THEN Sub(M[k], FCapOf(k)) ELSE Zero
      s == Mul(Thickness(k), ExcessFCap)
  IN  IF k = 0 THEN s ELSE Add(s, ExcessMoisture(M, k - 1))

WaterTableDepth(M) ==
  LET r == Displace(M, NSoilLayers)
  IN  [ Moist |-> r.Moist,
        TableDepth |->
          IF Lt(Zero, r.Surplus) THEN Neg(r.Surplus)
          ELSE Mul(TotalDepth,
                   Sub(One, Div(ExcessMoisture(r.Moist, NSoilLayers),
                                TotalStorage(NSoilLayers)))) ]

(***************************************************************************)
(* The states a call can start from and the arguments it can be given.     *)
(***************************************************************************)
MoistInit == {<<1, 4>>, <<3, 8>>, <<1, 2>>, <<5, 8>>}
PercInit == {Zero, <<1, 4>>}
TableDepthInit == {Zero, <<1, 4>>, <<1, 1>>, <<7, 4>>, <<2, 1>>}

Dts == {1, 2}
Infiltrations == {Zero, <<1, 4>>}
RoadbedInfiltrations == {Zero, <<1, 8>>}
CutBankZones == {-1} \cup (0 .. NSoilLayers)
BankHeights == {Zero, <<1, 1>>}
InfiltOptions == {STATIC, DYNAMIC}
SatFlows == {<<-1, 1>>, <<-1, 8>>, Zero, <<1, 8>>, <<1, 1>>}

NoArg == [fn |-> "none"]

Snapshot ==
  [Moist |-> Moist, Perc |-> Perc, TableDepth |-> TableDepth, Runoff |-> Runoff]

Locals ==
  /\ Runoff = Zero
  /\ pc = "idle"
  /\ arg = NoArg
  /\ i = 0
  /\ SatFlow = Zero
  /\ Depth = Zero
  /\ Infiltration = Zero
  /\ entry = Snapshot
  /\ drained = {}
  /\ wtd = Zero
  /\ guard = {}
  /\ visited = {}
  /\ calls = 0

\* One call on any column state the caller can pass.
Init ==
  /\ column \in Columns
  /\ Moist \in [0 .. NSoilLayers -> MoistInit]
  /\ \E p \in PercInit : Perc = [k \in 0 .. NSoilLayers - 1 |-> p]
  /\ TableDepth \in TableDepthInit
  /\ budget = 1
  /\ Locals

(***************************************************************************)
(* UnsaturatedFlow().  The function never reads its parameters DX, DY,     *)
(* SatFlow and Area; they are not part of the model's arguments.           *)
(***************************************************************************)

\* Lines 136-145: infiltration through the roadbed/channel.
RoadbedRunoff(R, Roadbed, BankHeight) ==
  IF Le(TableDepth, BankHeight) THEN Add(R, Roadbed) ELSE R

RoadbedMoist(M, Roadbed, CutBankZone, BankHeight) ==
  IF Le(TableDepth, BankHeight) THEN M
  ELSE IF CutBankZone = NSoilLayers THEN AddWater(M, NSoilLayers, Roadbed)
  ELSE IF CutBankZone >= 0 THEN AddWater(M, CutBankZone, Roadbed)
  ELSE M

\* Lines 146-153: infiltration through the remaining surface.
SurfaceRunoff(R, Infilt) ==
  IF Le(TableDepth, Zero) THEN Add(R, Infilt) ELSE R

SurfaceMoist(M, Infilt) ==
  IF Le(TableDepth, Zero) THEN M ELSE AddWater(M, 0, Infilt)

UF_Call(Dt, Infilt, Roadbed, CutBankZone, BankHeight, InfiltOption) ==
  /\ pc = "idle"
  /\ calls < budget
  /\ calls' = calls + 1
  /\ arg' = [fn |-> "UnsaturatedFlow", Dt |-> Dt, Infiltration |-> Infilt,
             RoadbedInfiltration |-> Roadbed, CutBankZone |-> CutBankZone,
             BankHeight |-> BankHeight, InfiltOption |-> InfiltOption]
  /\ entry' = Snapshot
  /\ Runoff' = SurfaceRunoff(RoadbedRunoff(Runoff, Roadbed, BankHeight), Infilt)
  /\ Moist' = SurfaceMoist(RoadbedMoist(Moist, Roadbed, CutBankZone, BankHeight),
                           Infilt)
  /\ Infiltration' =
       IF Le(TableDepth, Zero) /\ InfiltOption = DYNAMIC THEN Zero ELSE Infilt
  /\ i' = 0
  /\ drained' = {}
  /\ wtd' = Zero
  /\ guard' = {}
  /\ visited' = {}
  /\ SatFlow' = Zero
  /\ Depth' = Zero
  /\ pc' = "uf_loop"
  /\ UNCHANGED <<column, Perc, TableDepth, budget>>

\* Lines 159-168: the drainage of layer k over the time step.
Exponent(k) == Add(Div(<<2, 1>>, PoreDist[k]), <<3, 1>>)

Drainage(k, Dt) ==
  LET rate == IF Lt(Porosity[k], Moist[k]) THEN Ks[k]
              ELSE Mul(Ks[k], Pow(Div(Moist[k], Porosity[k]), Exponent(k)[1]))
  IN  Mul(rate, <<Dt, 1>>)

\* Line 169: averaged with the drainage of the previous time step.
AveragePerc(k, Dt) ==
  Mul(Mul(Half, Add(Perc[k], Drainage(k, Dt))), PercArea[k])

\* Faulty variant: the percolation is not limited to the water above field capacity.
ClampPercNone(k, p) == p

\* Lines 171-177: no unsaturated flow if the moisture content drops below
\* field capacity.
ClampPerc(k, p) ==
  LET SoilWater == Mul(Mul(RootDepth[k], Moist[k]), Adjust[k])
      FieldCapacity == Mul(Mul(RootDepth[k], FCap[k]), Adjust[k])
  IN  IF Lt(Sub(SoilWater, p), FieldCapacity) THEN Sub(SoilWater, FieldCapacity)
      ELSE p

\* Lines 182-184: moisture above the porosity is added to the percolation.
PushThrough(k, p) ==
  LET MaxSoilWater == Mul(Mul(RootDepth[k], Porosity[k]), Adjust[k])
      SoilWater == Sub(Mul(Mul(RootDepth[k], Moist[k]), Adjust[k]), p)
  IN  IF Lt(MaxSoilWater, SoilWater) THEN Add(p, Sub(SoilWater, MaxSoilWater))
      ELSE p

\* Faulty variant: every layer drains, also below field capacity.
DrainsAlways(k) == TRUE

\* Line 158: no movement if soil moisture is below field capacity.
Drains(k) == Lt(FCap[k], Moist[k])

\* Faulty variant: a layer that does not drain keeps its stored percolation.
LayerPercKept(k, Dt) ==
  IF Drains(k) THEN PushThrough(k, ClampPerc(k, AveragePerc(k, Dt))) ELSE Perc[k]

\* Lines 158-192: the percolation out of layer k, as a volume.
LayerPerc(k, Dt) ==
  IF Drains(k) THEN PushThrough(k, ClampPerc(k, AveragePerc(k, Dt))) ELSE Zero

\* Lines 156-196: one iteration of the layer loop.
UF_Layer ==
  /\ pc = "uf_loop"
  /\ i < NSoilLayers
  /\ LET p == LayerPerc(i, arg.Dt)
         M1 == IF Drains(i) THEN AddWater(Moist, i, Neg(p)) ELSE Moist
         M2 == IF Drains(i) /\ i < NSoilLayers - 1 THEN AddWater(M1, i + 1, p)
               ELSE M1
     IN  /\ Moist' = M2
         /\ Perc' = [Perc EXCEPT ![i] = Div(p, PercArea[i])]
  /\ drained' = IF Drains(i) THEN drained \cup {i} ELSE drained
  /\ i' = i + 1
  /\ UNCHANGED <<column, TableDepth, Runoff, pc, arg, SatFlow, Depth,
                 Infiltration, entry, wtd, guard, visited, calls, budget>>

\* Lines 198-200: the drainage of the lowest layer enters the deep reservoir.
UF_Deep ==
  /\ pc = "uf_loop"
  /\ i = NSoilLayers
  /\ LET DeepDrainage == Mul(Perc[NSoilLayers - 1], PercArea[NSoilLayers - 1])
     IN  Moist' = AddWater(Moist, NSoilLayers, DeepDrainage)
  /\ pc' = "uf_table"
  /\ UNCHANGED <<column, Perc, TableDepth, Runoff, arg, i, SatFlow, Depth,
                 Infiltration, entry, drained, wtd, guard, visited, calls, budget>>

\* Faulty variant: the ponded water is not added to Runoff.
PondingRunoffDropped(R, d) == R

\* Lines 210-219: a negative water table depth becomes surface runoff.
PondingRunoff(R, d) == IF Lt(d, Zero) THEN Add(R, Neg(d)) ELSE R

PondingTableDepth(d) == IF Lt(d, Zero) THEN Zero ELSE d

PondingInfiltration(Infilt, d) ==
  IF Lt(d, Zero) /\ arg.InfiltOption = DYNAMIC
  THEN IF Lt(Neg(d), Infilt) THEN Add(Infilt, d) ELSE Zero
  ELSE Infilt

\* Lines 207-220: the water table and the ponding; the call returns.
UF_Table ==
  /\ pc = "uf_table"
  /\ LET r == WaterTableDepth(Moist)
     IN  /\ Moist' = r.Moist
         /\ wtd' = r.TableDepth
         /\ Runoff' = PondingRunoff(Runoff, r.TableDepth)
         /\ Infiltration' = PondingInfiltration(Infiltration, r.TableDepth)
         /\ TableDepth' = PondingTableDepth(r.TableDepth)
  /\ pc' = "idle"
  /\ UNCHANGED <<column, Perc, arg, i, SatFlow, Depth, entry, drained, guard,
                 visited, calls, budget>>

\* The cut-bank arguments act only on the roadbed infiltration and the
\* infiltration option only on the surface infiltration: without the one,
\* a single value of the others is tried.
UFArgs ==
  { a \in [Dt : Dts, Infiltration : Infiltrations,
            RoadbedInfiltration : RoadbedInfiltrations,
            CutBankZone : CutBankZones, BankHeight : BankHeights,
            InfiltOption : InfiltOptions] :
      /\ a.RoadbedInfiltration = Zero => a.CutBankZone = -1 /\ a.BankHeight = Zero
      /\ a.Infiltration = Zero => a.InfiltOption = STATIC }

UnsaturatedFlow ==
  \/ \E a \in UFArgs :
       UF_Call(a.Dt, a.Infiltration, a.RoadbedInfiltration, a.CutBankZone,
               a.BankHeight, a.InfiltOption)
  \/ UF_Layer
  \/ UF_Deep
  \/ UF_Table

\* The calls of a cell without road or channel: no roadbed infiltration.
UnsaturatedFlowNoCut ==
  \/ \E a \in {b \in UFArgs : b.RoadbedInfiltration = Zero
                               /\ b.InfiltOption = STATIC} :
       UF_Call(a.Dt, a.Infiltration, a.RoadbedInfiltration, a.CutBankZone,
               a.BankHeight, a.InfiltOption)
  \/ UF_Layer
  \/ UF_Deep
  \/ UF_Table

(***************************************************************************)
(* DistributeSatflow().  The function reads *TableDepth and never writes   *)
(* it, and never reads Dt, DX, DY, Ks, Perc and PercArea.  When the        *)
(* assertion at its end fails the program stops: pc = "aborted".           *)
(***************************************************************************)
DS_Call(SF) ==
  /\ pc = "idle"
  /\ calls < budget
  /\ calls' = calls + 1
  /\ arg' = [fn |-> "DistributeSatflow", SatFlow |-> SF]
  /\ entry' = Snapshot
  /\ SatFlow' = SF
  /\ Depth' = Zero
  /\ i' = 0
  /\ Infiltration' = Zero
  /\ drained' = {}
  /\ wtd' = Zero
  /\ guard' = {}
  /\ visited' = {}
  /\ pc' = IF Lt(SF, Zero) THEN "ds_extract"
           ELSE IF Lt(Zero, SF) THEN "ds_inject_deep"
           ELSE "ds_exit"
  /\ UNCHANGED <<column, Moist, Perc, TableDepth, Runoff, budget>>

\* Lines 273-276: the depth of the bottom of layer k.
NextDepth(k, D) ==
  IF Lt(RootDepth[k], Sub(TotalDepth, D)) THEN Add(D, RootDepth[k])
  ELSE TotalDepth

\* Faulty variant: the whole layer counts as saturated, wherever the table is.
AvaWaterWholeLayer(k, D) ==
  Mul(Mul(Sub(Porosity[k], FCap[k]), RootDepth[k]), Adjust[k])

\* Lines 278-283: the water layer k can give up, D the depth of its bottom.
AvaWater(k, D) ==
  IF Lt(TableDepth, D)
  THEN IF Lt(RootDepth[k], Sub(D, TableDepth))
       THEN Mul(Mul(Sub(Porosity[k], FCap[k]), RootDepth[k]), Adjust[k])
       ELSE Mul(Mul(Sub(Porosity[k], FCap[k]), Sub(D, TableDepth)), Adjust[k])
  ELSE Zero

\* Faulty variant: the whole demand is taken, whatever the layer can give up.
ExtracWaterAll(SF, Ava) == SF

\* Lines 285 and 306: (-SatFlow > AvaWater) ? -AvaWater : SatFlow
ExtracWater(SF, Ava) == IF Lt(Ava, Neg(SF)) THEN Neg(Ava) ELSE SF

\* Lines 270-292: one iteration of the extraction loop.
DS_ExtractLayer ==
  /\ pc = "ds_extract"
  /\ i < NSoilLayers /\ Lt(Depth, TotalDepth)
  /\ LET D == NextDepth(i, Depth)
         w == ExtracWater(SatFlow, AvaWater(i, D))
         rest == Sub(SatFlow, w)
     IN  /\ Depth' = D
         /\ Moist' = AddWater(Moist, i, w)
         /\ SatFlow' = rest
         /\ IF rest = Zero
            THEN i' = i /\ pc' = "ds_exit"
            ELSE i' = i + 1 /\ pc' = pc
  /\ UNCHANGED <<column, Perc, TableDepth, Runoff, arg, Infiltration, entry,
                 drained, wtd, guard, visited, calls, budget>>

\* Lines 297-304: the water the deep reservoir can give up.
DeepAvaWater(D) ==
  IF Lt(D, TotalDepth)
  THEN IF Lt(DeepLayerDepth, Sub(TotalDepth, TableDepth))
       THEN Mul(Mul(Sub(DeepPorosity, DeepFCap), DeepLayerDepth),
                Adjust[NSoilLayers])
       ELSE Mul(Mul(Sub(DeepPorosity, DeepFCap), Sub(TotalDepth, TableDepth)),
                Adjust[NSoilLayers])
  ELSE Zero

\* Lines 294-312: the loop has ended with demand left; the deep reservoir.
DS_ExtractDeep ==
  /\ pc = "ds_extract"
  /\ ~(i < NSoilLayers /\ Lt(Depth, TotalDepth))
  /\ LET w == IF Lt(SatFlow, Zero)
              THEN ExtracWater(SatFlow, DeepAvaWater(Depth))
              ELSE Zero
         rest == Sub(SatFlow, w)
     IN  /\ Depth' = IF Lt(SatFlow, Zero) /\ Lt(Depth, TotalDepth)
                     THEN TotalDepth ELSE Depth
         /\ Moist' = IF Lt(SatFlow, Zero) THEN AddWater(Moist, NSoilLayers, w)
                     ELSE Moist
         /\ SatFlow' = rest
         /\ pc' = IF Lt(Zero, rest) THEN "ds_inject_deep" ELSE "ds_exit"
  /\ UNCHANGED <<column, Perc, TableDepth, Runoff, arg, i, Infiltration, entry,
                 drained, wtd, guard, visited, calls, budget>>

\* Lines 317 and 329: if (Depth > (TotalDepth - *TableDepth));
DepthGuard(D) == Lt(Sub(TotalDepth, TableDepth), D)

\* The statement the guard controls is the empty statement that its
\* semicolon ends: the block after it is entered whatever the guard is.
BlockEntered(g) == TRUE

\* Lines 318 and 330: the water layer k can still take.
WaterGap(k) == Mul(Sub(PorosityOf(k), Moist[k]), Thickness(k))

\* Faulty variant: the whole flow is injected, whatever the layer can take.
InjectWaterAll(SF, Gap) == SF

\* Lines 319 and 331: (SatFlow > WaterGap) ? WaterGap : SatFlow
InjectWater(SF, Gap) == IF Lt(Gap, SF) THEN Gap ELSE SF

\* Lines 312-324: injection into the deep reservoir.
DS_InjectDeep ==
  /\ pc = "ds_inject_deep"
  /\ LET D == Add(Depth, DeepLayerDepth)
         g == DepthGuard(D)
         w == IF BlockEntered(g) THEN InjectWater(SatFlow, WaterGap(NSoilLayers))
              ELSE Zero
         rest == Sub(SatFlow, w)
     IN  /\ Depth' = D
         /\ guard' = IF g THEN guard \cup {NSoilLayers} ELSE guard
         /\ visited' = visited \cup {NSoilLayers}
         /\ SatFlow' = rest
         /\ Moist' = AddWater(Moist, NSoilLayers, w)
         /\ IF Lt(Zero, rest)
            THEN i' = NSoilLayers - 1 /\ pc' = "ds_inject"
            ELSE i' = i /\ pc' = "ds_exit"
  /\ UNCHANGED <<column, Perc, TableDepth, Runoff, arg, Infiltration, entry,
                 drained, wtd, calls, budget>>

\* Lines 325-337: one iteration of the injection loop.
DS_InjectLayer ==
  /\ pc = "ds_inject"
  /\ i >= 0
  /\ LET D == Add(Depth, RootDepth[i])
         g == DepthGuard(D)
         w == IF BlockEntered(g) THEN InjectWater(SatFlow, WaterGap(i)) ELSE Zero
         rest == Sub(SatFlow, w)
     IN  /\ Depth' = D
         /\ guard' = IF g THEN guard \cup {i} ELSE guard
         /\ visited' = visited \cup {i}
         /\ SatFlow' = rest
         /\ Moist' = AddWater(Moist, i, w)
         /\ IF rest = Zero
            THEN i' = i /\ pc' = "ds_exit"
            ELSE i' = i - 1 /\ pc' = IF i = 0 THEN "ds_exit" ELSE pc
  /\ UNCHANGED <<column, Perc, TableDepth, Runoff, arg, Infiltration, entry,
                 drained, wtd, calls, budget>>

\* Faulty variant: the remaining flow is not added to Runoff.
ExitRunoffDropped(R, SF) == R

\* Lines 341-342: if (SatFlow > 0.0) *Runoff += SatFlow;
ExitRunoff(R, SF) == IF Lt(Zero, SF) THEN Add(R, SF) ELSE R

\* Line 344: assert(SatFlow >= 0.0);
AssertHolds(SF) == Le(Zero, SF)

\* Lines 341-346: the call returns, or the assertion stops the program.
DS_Exit ==
  /\ pc = "ds_exit"
  /\ Runoff' = ExitRunoff(Runoff, SatFlow)
  /\ pc' = IF AssertHolds(SatFlow) THEN "idle" ELSE "aborted"
  /\ UNCHANGED <<column, Moist, Perc, TableDepth, arg, i, SatFlow, Depth,
                 Infiltration, entry, drained, wtd, guard, visited, calls, budget>>

DistributeSatflow ==
  \/ \E SF \in SatFlows : DS_Call(SF)
  \/ DS_ExtractLayer
  \/ DS_ExtractDeep
  \/ DS_InjectDeep
  \/ DS_InjectLayer
  \/ DS_Exit

Next == UnsaturatedFlow \/ DistributeSatflow


Spec == Init /\ [][Next]_vars

(***************************************************************************)
(* A sequence of calls on a cell: the column starts with every layer at or *)
(* below its porosity and the water table that WaterTableDepth gives for   *)
(* that profile, and the caller makes MaxCalls calls.                      *)
(***************************************************************************)
MoistSeqInit == {<<1, 8>>, <<3, 8>>, <<1, 2>>}

InitSeq ==
  /\ column \in Columns
  /\ Moist \in [0 .. NSoilLayers -> MoistSeqInit]
  /\ \E p \in PercInit : Perc = [k \in 0 .. NSoilLayers - 1 |-> p]
  /\ TableDepth = WaterTableDepth(Moist).TableDepth
  /\ budget = MaxCalls
  /\ Locals

NextSeq == UnsaturatedFlowNoCut \/ DistributeSatflow

SpecSeq == InitSeq /\ [][NextSeq]_vars


(***************************************************************************)
(* Quantities the properties are stated in.                                *)
(***************************************************************************)
Layers == 0 .. NSoilLayers - 1
AllLayers == 0 .. NSoilLayers

RMax(a, b) == IF Lt(a, b) THEN b ELSE a
RMin(a, b) == IF Lt(a, b) THEN a ELSE b

\* Stored water of a moisture profile: the sum of Moist[k] times the
\* thickness of layer k over the explicit layers and the deep reservoir.
RECURSIVE StoredUpTo(_, _)
StoredUpTo(M, k) ==
  LET w == Mul(M[k], Thickness(k))
  IN  IF k = 0 THEN w ELSE Add(w, StoredUpTo(M, k - 1))

Stored(M) == StoredUpTo(M, NSoilLayers)

\* Change of stored water plus change of runoff since the entry of the call.
WaterGained ==
  Add(Sub(Stored(Moist), Stored(entry.Moist)), Sub(Runoff, entry.Runoff))

InUF == arg.fn = "UnsaturatedFlow"
InDS == arg.fn = "DistributeSatflow"
ReturnedUF == InUF /\ pc = "idle"
ReturnedDS == InDS /\ pc = "idle"
AfterLayerLoop == InUF /\ ((pc = "uf_loop" /\ i = NSoilLayers) \/ pc = "uf_table")

\* Depth of the top and of the bottom of layer k below the surface.
RECURSIVE BottomOf(_)
BottomOf(k) ==
  IF k = NSoilLayers THEN TotalDepth
  ELSE IF k = 0 THEN RootDepth[0]
  ELSE Add(BottomOf(k - 1), RootDepth[k])

TopOf(k) == IF k = 0 THEN Zero ELSE BottomOf(k - 1)

\* The part of layer k's thickness that lies below the water table.
BelowTable(k) == RMax(Zero, Sub(BottomOf(k), RMax(entry.TableDepth, TopOf(k))))

\* The water layer k can give up to an extraction.
Available(k) ==
  Mul(Mul(Sub(PorosityOf(k), FCapOf(k)), Adjust[k]), BelowTable(k))

RECURSIVE AvailableUpTo(_)
AvailableUpTo(k) ==
  IF k < 0 THEN Zero ELSE Add(Available(k), AvailableUpTo(k - 1))

TotalAvailable == AvailableUpTo(NSoilLayers)

\* The water layer k has lost since the entry of the call.
Loss(k) == Mul(Sub(entry.Moist[k], Moist[k]), Thickness(k))

RECURSIVE LossUpTo(_)
LossUpTo(k) == IF k < 0 THEN Zero ELSE Add(Loss(k), LossUpTo(k - 1))

Demand == Neg(arg.SatFlow)

Extracting == InDS /\ Lt(arg.SatFlow, Zero)
Injecting == InDS /\ Lt(Zero, arg.SatFlow)

(***************************************************************************)
(* C1.  The remaining flow when DistributeSatflow reaches its exit.        *)
(***************************************************************************)
\* C1 as stated: whatever the signed SatFlow of the call, the remaining
\* flow at the exit is >= 0, so that assert(SatFlow >= 0.0) never fails.
C1_RemainingFlowNonNegative ==
  (InDS /\ pc = "ds_exit") => Le(Zero, SatFlow)

\* C1 as amended: the remaining flow at the exit is >= 0 exactly when the
\* call injects (SatFlow >= 0) or the water available to the extraction, in
\* the explicit layers and the deep reservoir, is at least |SatFlow|; the
\* program never continues past a failed assertion.
C1_RemainingFlowNonNegativeIffAvailable ==
  /\ (InDS /\ pc = "ds_exit") =>
       (Le(Zero, SatFlow) <=> (Le(Zero, arg.SatFlow) \/ Le(Demand, TotalAvailable)))
  /\ (InDS /\ pc = "idle") => Le(Zero, SatFlow)
  /\ pc = "aborted" => (Extracting /\ Lt(TotalAvailable, Demand))

\* C1 witness: an extraction that needed the deep reservoir and was fully
\* absorbed reaches the exit.
C1_Witness ==
  /\ Extracting /\ pc = "ds_exit"
  /\ SatFlow = Zero
  /\ Lt(Zero, Loss(NSoilLayers))

(***************************************************************************)
(* C2.  Mass conservation of UnsaturatedFlow.                              *)
(***************************************************************************)
\* C2: over one call of UnsaturatedFlow the change in stored water plus the
\* change in Runoff equals Infiltration + RoadbedInfiltration, for every
\* TableDepth, BankHeight, CutBankZone (the values below 0 included) and
\* infiltration option.
C2_MassConservation ==
  ReturnedUF => WaterGained = Add(arg.Infiltration, arg.RoadbedInfiltration)

(***************************************************************************)
(* C3.  Mass conservation of DistributeSatflow.                            *)
(***************************************************************************)
\* C3: for every call of DistributeSatflow that completes, the change in
\* stored water plus the change in Runoff equals the signed input SatFlow.
C3_MassConservation ==
  ReturnedDS => WaterGained = arg.SatFlow

\* C3 witness: a completed injection into a column that had a layer above
\* its porosity on entry.
C3_Witness ==
  /\ ReturnedDS /\ Injecting
  /\ \E k \in AllLayers : Lt(PorosityOf(k), entry.Moist[k]) /\ Moist[k] # entry.Moist[k]

(***************************************************************************)
(* C4.  Ponding post-condition of UnsaturatedFlow.                         *)
(***************************************************************************)
Ponded == Lt(wtd, Zero)

\* The infiltration the call routed to Runoff before the layer loop.
RoutedToRunoff ==
  Add(IF Le(entry.TableDepth, arg.BankHeight) THEN arg.RoadbedInfiltration
      ELSE Zero,
      IF Le(entry.TableDepth, Zero) THEN arg.Infiltration ELSE Zero)

\* C4 as stated: TableDepth >= 0 on every return, and whenever
\* WaterTableDepth returned a negative depth d, Runoff has increased over
\* the call by exactly |d| and TableDepth is 0.
C4_PondingExactlyDepth ==
  ReturnedUF =>
    /\ Le(Zero, TableDepth)
    /\ Ponded => (Sub(Runoff, entry.Runoff) = Neg(wtd) /\ TableDepth = Zero)

\* C4 as amended: TableDepth >= 0 on every return, and whenever
\* WaterTableDepth returned a negative depth d, TableDepth is 0 and Runoff
\* has increased over the call by |d| plus the infiltration routed to
\* Runoff at entry (RoadbedInfiltration when the entry TableDepth was at or
\* above BankHeight, Infiltration when it was at or above the surface).
C4_PondingDepthPlusRouted ==
  ReturnedUF =>
    /\ Le(Zero, TableDepth)
    /\ Ponded => /\ Sub(Runoff, entry.Runoff) = Add(Neg(wtd), RoutedToRunoff)
                 /\ TableDepth = Zero

\* C4 witness: a call that ponded after routing roadbed infiltration to
\* Runoff.
C4_Witness ==
  /\ ReturnedUF /\ Ponded
  /\ Lt(Zero, RoutedToRunoff)

(***************************************************************************)
(* C5.  Drained layers stay between field capacity and porosity.           *)
(***************************************************************************)
\* C5: after the layer loop of UnsaturatedFlow every explicit layer that
\* drained has FCap[k] <= Moist[k] <= Porosity[k].
C5_DrainedWithinBounds ==
  AfterLayerLoop =>
    \A k \in drained : Le(FCap[k], Moist[k]) /\ Le(Moist[k], Porosity[k])

\* C5 witness: after the loop, one layer was held at field capacity by the
\* clamp and another was brought down to porosity by the push-through.
C5_Witness ==
  /\ AfterLayerLoop
  /\ \E k \in drained : Moist[k] = Porosity[k] /\ Lt(Porosity[k], entry.Moist[k])
  /\ \E k \in drained : Moist[k] = FCap[k]

(***************************************************************************)
(* C6.  The stored percolation is never negative.                          *)
(***************************************************************************)
\* C6: starting from Perc[k] >= 0, every stored Perc[k] is >= 0 after any
\* sequence of UnsaturatedFlow and DistributeSatflow calls.
C6_PercNonNegative ==
  \A k \in Layers : Le(Zero, Perc[k])

\* C6 witness: after a second call a layer stores a positive percolation
\* that the field-capacity clamp did not set.
C6_Witness ==
  /\ ReturnedUF /\ calls >= 2
  /\ \E k \in Layers : Lt(Zero, Perc[k]) /\ Lt(FCap[k], Moist[k])

(***************************************************************************)
(* C7.  Zero-input idempotence of UnsaturatedFlow.                         *)
(***************************************************************************)
\* No infiltration, every layer at field capacity and the table at
\* TotalDepth when the call was made.
ZeroInputAtFieldCapacity ==
  /\ arg.Infiltration = Zero /\ arg.RoadbedInfiltration = Zero
  /\ \A k \in AllLayers : entry.Moist[k] = FCapOf(k)
  /\ entry.TableDepth = TotalDepth

\* C7 as stated: such a call leaves Moist, the stored Perc, TableDepth and
\* Runoff unchanged, whatever the stored Perc was on entry.
C7_ZeroInputLeavesAllUnchanged ==
  (ReturnedUF /\ ZeroInputAtFieldCapacity) =>
    /\ Moist = entry.Moist
    /\ Perc = entry.Perc
    /\ TableDepth = entry.TableDepth
    /\ Runoff = entry.Runoff

\* C7 as amended: such a call leaves Moist, TableDepth and Runoff unchanged
\* and sets the stored Perc of every layer to 0, so the stored Perc is
\* unchanged exactly when it was 0 on entry.
C7_ZeroInputResetsPerc ==
  (ReturnedUF /\ ZeroInputAtFieldCapacity) =>
    /\ Moist = entry.Moist
    /\ \A k \in Layers : Perc[k] = Zero
    /\ TableDepth = entry.TableDepth
    /\ Runoff = entry.Runoff

\* C7 witness: such a call has returned, entered with a positive stored Perc.
C7_Witness ==
  /\ ReturnedUF /\ ZeroInputAtFieldCapacity
  /\ \E k \in Layers : Lt(Zero, entry.Perc[k])

(***************************************************************************)
(* C8.  Injection only where the depth guard holds.                        *)
(***************************************************************************)
\* C8: in the injection branch a layer, or the deep reservoir, for which
\* the guard Depth > TotalDepth - TableDepth was false keeps its moisture.
C8_NoInjectionOutsideGuard ==
  Injecting => \A k \in visited \ guard : Moist[k] = entry.Moist[k]

(***************************************************************************)
(* C9.  Bottom-up fill order of the injection.                             *)
(***************************************************************************)
\* C9: after a call with SatFlow > 0, if explicit layer k was changed then
\* the deep reservoir and every explicit layer below k hold exactly their
\* porosity; no changed layer ends above its porosity; and Runoff has grown
\* only if the deep reservoir and all explicit layers ended at porosity.
C9_BottomUpFill ==
  (ReturnedDS /\ Injecting) =>
    /\ \A k \in Layers :
         Moist[k] # entry.Moist[k] =>
           \A j \in (k + 1) .. NSoilLayers : Moist[j] = PorosityOf(j)
    /\ \A k \in AllLayers :
         Moist[k] # entry.Moist[k] => Le(Moist[k], PorosityOf(k))
    /\ Lt(entry.Runoff, Runoff) => \A k \in AllLayers : Moist[k] = PorosityOf(k)

\* C9 witness: an injection that changed the top layer and left a
\* remainder for Runoff.
C9_Witness ==
  /\ ReturnedDS /\ Injecting
  /\ NSoilLayers > 1
  /\ Moist[0] # entry.Moist[0]
  /\ Lt(entry.Runoff, Runoff)

(***************************************************************************)
(* C10.  Top-down extraction.                                              *)
(***************************************************************************)
CallOver == pc \in {"idle", "aborted"}

=============================================================================
